---- MODULE Spec2Model ----
(***************************************************************************)
(* Model of the Kalshi BTC auto-trader (reeceway/kalshi-btc-tool):         *)
(*   - the runner-late daemon scheduler (startDaemon / checkAndRun),       *)
(*   - the order execution state machine (placeOrder) of runner-late.js    *)
(*     and runner.js, with its response / error / timeout callbacks,       *)
(*   - one trade cycle (runTrade) of both runners with its veto chain.     *)
(* Money is in cents (integers); percentages are compared by cross         *)
(* multiplication so that no rounding is introduced by the model.          *)
(***************************************************************************)
EXTENDS Integers, Sequences, FiniteSets, TLC

VARIABLES
    \* ---- scheduler (runner-late.js startDaemon) ----
    hour,            \* hours elapsed since the daemon started (absolute clock hour)
    localHour,       \* Date.getHours(): local hour-of-day label, 0..23
    minute,          \* Date.getMinutes()
    dstUsed,         \* a daylight-saving shift of the local clock has happened
    lastRunHour,     \* the closure variable of startDaemon
    firedThisHour,   \* number of runTrade() calls started in the current clock hour
    pollsSinceFire,  \* polls of checkAndRun seen in this trigger minute after a fire
    running,         \* number of runTrade() calls that have not completed yet
    second,          \* Date.getSeconds() at the latest poll (runner.js daemon)
    proc,            \* the node process: [state, webhook, inflight, starts, exitCode, noExit]
    \* ---- order execution (placeOrder) ----
    variant,         \* "late" (runner-late.js) or "runner" (runner.js)
    creds,           \* what getKalshiAuth()/signRequest() find: "none", "ok", "badkey"
    order,           \* the arguments of placeOrder: [ticker, side, count, price]
    reqState,        \* per attempt, the https request: unused / inflight / destroyed / ended
    handler,         \* per attempt, the callback that handled it: idle / sleeping / awaiting / done
    promise,         \* per attempt, the promise placeOrder returned: [kind, from]
    events,          \* per attempt, what happened to its request
    sent,            \* the order requests written to the venue, in order
    \* ---- one trade cycle (runTrade) ----
    pc,              \* "none" (no cycle), "fetched" (Promise.all joined), "ordering", "done"
    inp,             \* what the parallel fetches returned
    report,          \* what runTrade notified: [reason, side, confidence, decided]
    \* ---- one call of a pure function ----
    call,            \* the function called and its arguments
    ret              \* what it returned ([fn |-> "none"]: not called yet)

schedVars == <<hour, localHour, minute, dstUsed, lastRunHour, firedThisHour,
               pollsSinceFire, running, second, proc>>

orderVars == <<variant, creds, order, reqState, handler, promise, events, sent>>

cycleVars == <<pc, inp, report>>

fnVars == <<call, ret>>

vars == <<schedVars, orderVars, cycleVars, fnVars>>

(***************************************************************************)
(* Bounds of the model.                                                    *)
(***************************************************************************)
MaxHours == 3
MaxPolls == 3
\* Prices per contract (cents) that calculatePositionSize is called with: 0..MaxPricePerContract.
MaxPricePerContract == 100
\* Longest list of open markets handed to the market selection.
MaxMarkets == 2
\* Minutes to settlement over which the time bands are compared: 0..MaxMinutes.
MaxMinutes == 60
\* How often the daemon process is started (first start included).
MaxStarts == 2
\* The instant (in seconds) at which the modelled cycle reads Date.now().
Now == 100000

(***************************************************************************)
(* Program constants.                                                      *)
(***************************************************************************)
HoursPerDay == 24
MinutesPerHour == 60
LateRunAtMinute == 50
maxRetries == 2
LatePriceBuffer == 1
RunnerPriceBuffer == 2
RunnerUseMarketOrder == TRUE
CentsPerDollar == 100
StrikeSanityFloor == 1000
\* A lower distance floor than the configured one.
coinFlipThresholdLow == 20 \div 4

coinFlipThreshold == 20
momentumPenalty == 10
maxVolatilityPermille == 8
LateMinConfidence == 50
RunnerMinConfidence == 55
LateAskCeiling == 100
RunnerAskCeiling == 95
positionSizePct == 10
minContracts == 1
maxContracts == 100
RunnerContractCount == 10
RunnerRunAtMinute == 54
RunnerTriggerSeconds == 5
SecondsPerMinute == 60

Min(a, b) == IF a < b THEN a ELSE b
Max(a, b) == IF a > b THEN a ELSE b

\* The node process.  state: "none" (not modelled), "daemon" (--daemon),
\* "single" (one cycle, then exit), "lingering" (--no-exit after the cycle),
\* "exited" (process.exit), "crashed" (uncaught exception or unhandled
\* rejection).  webhook: NOTIFY_WEBHOOK is set; inflight: a request made by
\* notify has not completed yet; starts: how often the process was started.
NoProc == [state |-> "none", webhook |-> FALSE, inflight |-> FALSE, starts |-> 0,
           exitCode |-> -1, noExit |-> FALSE]

\* Values of the groups of variables a specification does not use.
ClockIdle ==
    /\ second = 0
    /\ hour = 0
    /\ localHour = 0
    /\ minute = 0
    /\ dstUsed = FALSE
    /\ lastRunHour = -1
    /\ firedThisHour = 0
    /\ pollsSinceFire = 0
    /\ running = 0

SchedIdle ==
    /\ ClockIdle
    /\ proc = NoProc

NoOrder == [ticker |-> "none", side |-> "none", count |-> 0, price |-> 0]

NoCandles == [n |-> 0, range |-> 0, mom |-> 0, d1 |-> 0, taUp |-> 50]

NoInput == [spot |-> 0, tick |-> 0, markets |-> <<>>, candles |-> NoCandles,
            balance |-> 0]

NoReport == [reason |-> "none", side |-> "none", confidence |-> 0, decided |-> FALSE]

CycleIdle ==
    /\ pc = "none"
    /\ inp = NoInput
    /\ report = NoReport

NoCall == [fn |-> "none"]

FnIdle ==
    /\ call = NoCall
    /\ ret = NoCall

(***************************************************************************)
(* Order execution: placeOrder of runner-late.js and runner.js.            *)
(* One call chain placeOrder(args, 0) -> placeOrder(args, 1) -> ... ; the  *)
(* attempt index is the retryCount parameter.  Each attempt owns one       *)
(* https request, one promise and the callbacks registered on the request. *)
(* Promise continuations are microtasks: they run to completion before the *)
(* next I/O or timer callback, so a resolution and its propagation to the  *)
(* awaiting callers are one step.                                          *)
(***************************************************************************)
Attempts == 0..maxRetries

Pending == [kind |-> "pending", from |-> -1]

Outcome(k, i) == [kind |-> k, from |-> i]

\* Kinds of results that report a failed order ({ success: false, error }).
FailureKinds == {"fail_http", "fail_parse", "fail_network", "fail_timeout",
                 "no_credentials"}

\* The state of the order machinery before placeOrder is called.
OrderIdle ==
    /\ reqState = [i \in Attempts |-> "unused"]
    /\ handler = [i \in Attempts |-> "idle"]
    /\ promise = [i \in Attempts |-> Pending]
    /\ events = [i \in Attempts |-> "none"]
    /\ sent = <<>>

\* A variant of the limit price of runner-late without the buffer.
LateFillPriceNoBuffer(price) == Min(99, price)

\* The limit price of runner-late: Math.min(99, price + 1).
LateFillPrice(price) == Min(99, price + LatePriceBuffer)

\* The limit price of runner.js when useMarketOrder is off: Math.min(99, price + 2).
RunnerPriceWithBuffer(price) == Min(99, price + RunnerPriceBuffer)

\* A variant of the order body that raises the price by one cent and halves
\* the count on every retry.
OrderBodyRepricedOnRetry(args, i) ==
    LET limit == variant = "late" \/ ~RunnerUseMarketOrder
        p == IF variant = "late" THEN LateFillPrice(args.price + i)
             ELSE RunnerPriceWithBuffer(args.price + i)
    IN [retry     |-> i,
        ticker    |-> args.ticker,
        side      |-> args.side,
        action    |-> "buy",
        count     |-> IF i = 0 THEN args.count ELSE Max(1, args.count \div 2),
        type      |-> IF limit THEN "limit" ELSE "market",
        yes_price |-> IF limit /\ args.side = "yes" THEN p ELSE 0,
        no_price  |-> IF limit /\ args.side # "yes" THEN p ELSE 0]

\* JSON body of the order written by attempt i (price 0: the field is absent).
OrderBody(args, i) ==
    LET limit == variant = "late" \/ ~RunnerUseMarketOrder
        p == IF variant = "late" THEN LateFillPrice(args.price)
             ELSE RunnerPriceWithBuffer(args.price)
    IN [retry     |-> i,
        ticker    |-> args.ticker,
        side      |-> args.side,
        action    |-> "buy",
        count     |-> args.count,
        type      |-> IF limit THEN "limit" ELSE "market",
        yes_price |-> IF limit /\ args.side = "yes" THEN p ELSE 0,
        no_price  |-> IF limit /\ args.side # "yes" THEN p ELSE 0]

\* A variant of Resolve in which the retry's result is not passed on to the
\* promise of the attempt that started the retry.
ResolveNoPropagate(p, i, v) ==
    [j \in DOMAIN p |-> IF j = i /\ p[j] = Pending THEN v ELSE p[j]]

\* resolve(v) on the promise of attempt i.  A promise keeps its first value.
\* The callback of attempt i-1 that awaits placeOrder(.., i) then calls
\* resolve(v) on its own promise ("resolve(await placeOrder(...))"), and so on
\* down to attempt 0, as long as those promises are still pending.
Resolve(p, i, v) ==
    [j \in DOMAIN p |->
        IF j <= i /\ \A k \in j..i : p[k] = Pending THEN v ELSE p[j]]

\* A variant of placeOrder that does not look at the credentials first.
placeOrderNoAuthCheck(args, i) ==
    /\ reqState' = [reqState EXCEPT ![i] = "inflight"]
    /\ sent' = Append(sent, OrderBody(args, i))
    /\ UNCHANGED promise

\* The synchronous part of placeOrder(args, i): credentials, signature, and
\* the request written with req.write(body); req.end().
placeOrder(args, i) ==
    IF creds = "none"
    THEN /\ promise' = Resolve(promise, i, Outcome("no_credentials", i))
         /\ UNCHANGED <<reqState, sent>>
    ELSE IF creds = "badkey"
    THEN \* crypto.sign throws: the async function's promise is rejected
         /\ promise' = [promise EXCEPT ![i] = Outcome("threw", i)]
         /\ UNCHANGED <<reqState, sent>>
    ELSE /\ reqState' = [reqState EXCEPT ![i] = "inflight"]
         /\ sent' = Append(sent, OrderBody(args, i))
         /\ UNCHANGED promise

\* res.on("end"): the response of attempt i has been read completely.
OnResponseEnd(i, is2xx, jsonOk) ==
    /\ reqState[i] = "inflight"
    /\ handler[i] = "idle"
    /\ reqState' = [reqState EXCEPT ![i] = "ended"]
    /\ events' = [events EXCEPT ![i] =
                    IF is2xx THEN (IF jsonOk THEN "ok2xx" ELSE "bad2xx")
                    ELSE (IF jsonOk THEN "non2xx" ELSE "non2xx_badjson")]
    /\ IF ~jsonOk
       THEN \* JSON.parse throws: catch (e) { resolve({success: false, error: data}) }
            /\ promise' = Resolve(promise, i, Outcome("fail_parse", i))
            /\ handler' = [handler EXCEPT ![i] = "done"]
       ELSE IF is2xx
       THEN /\ promise' = Resolve(promise, i, Outcome("success", i))
            /\ handler' = [handler EXCEPT ![i] = "done"]
       ELSE IF i < maxRetries
       THEN \* await sleep(500)
            /\ handler' = [handler EXCEPT ![i] = "sleeping"]
            /\ UNCHANGED promise
       ELSE /\ promise' = Resolve(promise, i, Outcome("fail_http", i))
            /\ handler' = [handler EXCEPT ![i] = "done"]
    /\ UNCHANGED sent

\* req.on("error"): a network error, or the error event that destroying the
\* request in the timeout callback raises.
OnError(i) ==
    /\ reqState[i] \in {"inflight", "destroyed"}
    /\ handler[i] = "idle"
    /\ reqState' = [reqState EXCEPT ![i] = "ended"]
    /\ events' = [events EXCEPT ![i] =
                    IF reqState[i] = "destroyed" THEN "timeout_error" ELSE "neterr"]
    /\ IF i < maxRetries
       THEN \* await sleep(500)
            /\ handler' = [handler EXCEPT ![i] = "sleeping"]
            /\ UNCHANGED promise
       ELSE /\ promise' = Resolve(promise, i, Outcome("fail_network", i))
            /\ handler' = [handler EXCEPT ![i] = "done"]
    /\ UNCHANGED sent

\* A variant of the timeout callback written like the error callback, which
\* retries but leaves the timed-out request open.
OnTimeoutRetryNoDestroy(i) ==
    /\ reqState[i] = "inflight"
    /\ handler[i] = "idle"
    /\ events' = [events EXCEPT ![i] = "timeout"]
    /\ IF i < maxRetries
       THEN /\ handler' = [handler EXCEPT ![i] = "sleeping"]
            /\ UNCHANGED promise
       ELSE /\ promise' = Resolve(promise, i, Outcome("fail_timeout", i))
            /\ handler' = [handler EXCEPT ![i] = "done"]
    /\ UNCHANGED <<reqState, sent>>

\* req.on("timeout"): req.destroy(); resolve({success: false, error: "Request timeout"}).
OnTimeout(i) ==
    /\ reqState[i] = "inflight"
    /\ handler[i] = "idle"
    /\ reqState' = [reqState EXCEPT ![i] = "destroyed"]
    /\ events' = [events EXCEPT ![i] = "timeout"]
    /\ promise' = Resolve(promise, i, Outcome("fail_timeout", i))
    /\ UNCHANGED <<handler, sent>>

\* sleep(500) is over: the callback of attempt i calls placeOrder(args, i + 1)
\* and awaits it.
RetryAfterBackoff(i) ==
    /\ i < maxRetries
    /\ handler[i] = "sleeping"
    /\ handler' = [handler EXCEPT ![i] = "awaiting"]
    /\ placeOrder(order, i + 1)
    /\ UNCHANGED events

\* placeOrder({ticker, side, count, price}) called directly (retryCount = 0).
PlaceOrderCall ==
    /\ pc = "none"
    /\ OrderIdle
    /\ placeOrder(order, 0)
    /\ pc' = "ordering"
    /\ UNCHANGED <<fnVars, schedVars, variant, creds, order, handler, events, inp, report>>

ResponseEnd ==
    /\ \E i \in Attempts, is2xx \in BOOLEAN, jsonOk \in BOOLEAN :
          OnResponseEnd(i, is2xx, jsonOk)
    /\ UNCHANGED <<fnVars, schedVars, cycleVars, variant, creds, order>>

ErrorEvent ==
    /\ \E i \in Attempts : OnError(i)
    /\ UNCHANGED <<fnVars, schedVars, cycleVars, variant, creds, order>>

TimeoutEvent ==
    /\ \E i \in Attempts : OnTimeout(i)
    /\ UNCHANGED <<fnVars, schedVars, cycleVars, variant, creds, order>>

Retry ==
    /\ \E i \in Attempts : RetryAfterBackoff(i)
    /\ UNCHANGED <<fnVars, schedVars, cycleVars, variant, creds, order>>

OrderEvents == ResponseEnd \/ ErrorEvent \/ TimeoutEvent \/ Retry

\* Requests written and not yet ended (response read, error, or destroyed).
InFlight == {i \in Attempts : reqState[i] = "inflight"}

\* placeOrder called with any arguments a cycle can pass, in either runner.
OrderArgs == [ticker : {"KXBTCD-T78749.99"}, side : {"yes", "no"},
              count : {1, 100}, price : {1, 62, 98, 99}]

OrderInit ==
    /\ SchedIdle
    /\ CycleIdle
    /\ FnIdle
    /\ OrderIdle
    /\ variant \in {"late", "runner"}
    /\ creds \in {"none", "ok", "badkey"}
    /\ order \in OrderArgs

OrderNext == PlaceOrderCall \/ ResponseEnd \/ ErrorEvent \/ TimeoutEvent \/ Retry

SpecOrder == OrderInit /\ [][OrderNext]_vars

(***************************************************************************)
(* Market selection (data/kalshi.js).  A market is a record of the fields  *)
(* the code reads.  Strikes and prices are in cents.  Time fields are      *)
(* absolute seconds; 0 is an absent field and a negative value is a string *)
(* that new Date() cannot parse.  The numbers found by the regular         *)
(* expressions of parseStrikePrice are given as fields (0: no match).      *)
(***************************************************************************)
NullMarket ==
    [ticker |-> "", event_ticker |-> "", titleNum |-> 0, tickerNum |-> 0,
     floor_strike |-> 0, ceiling_strike |-> 0, close_time |-> 0,
     expected_expiration_time |-> 0, expiration_time |-> 0,
     yes_ask |-> 0, no_ask |-> 0]

\* parseStrikePrice: title, then ticker, then floor_strike, then ceiling_strike;
\* a number counts only if it is above the sanity floor.  0 stands for null.
parseStrikePrice(m) ==
    LET ok(num) == num > StrikeSanityFloor * CentsPerDollar
    IN IF ok(m.titleNum) THEN m.titleNum
       ELSE IF ok(m.tickerNum) THEN m.tickerNum
       ELSE IF ok(m.floor_strike) THEN m.floor_strike
       ELSE IF ok(m.ceiling_strike) THEN m.ceiling_strike
       ELSE 0

\* A variant of parseExpiration that prefers the final expiration time:
\* expiration_time || expected_expiration_time || close_time.
parseExpirationFinalFirst(m) ==
    LET expStr == IF m.expiration_time # 0 THEN m.expiration_time
                  ELSE IF m.expected_expiration_time # 0 THEN m.expected_expiration_time
                  ELSE m.close_time
    IN IF expStr <= 0 THEN 0 ELSE expStr

\* parseExpiration: close_time || expected_expiration_time || expiration_time,
\* null (0) when none is present or the chosen one is not a date.
parseExpiration(m) ==
    LET expStr == IF m.close_time # 0 THEN m.close_time
                  ELSE IF m.expected_expiration_time # 0 THEN m.expected_expiration_time
                  ELSE m.expiration_time
    IN IF expStr <= 0 THEN 0 ELSE expStr

\* A variant of getNextEventMarkets that takes the first event that is still
\* open instead of the one that settles earliest.
getNextEventMarketsFirstOpen(markets) ==
    LET open == {i \in DOMAIN markets :
                    /\ markets[i].event_ticker # ""
                    /\ parseExpiration(markets[i]) > Now
                    /\ \A j \in 1..(i - 1) :
                           markets[j].event_ticker # markets[i].event_ticker}
    IN IF open = {} THEN <<>>
       ELSE LET f == CHOOSE i \in open : \A j \in open : i <= j
            IN SelectSeq(markets, LAMBDA m : m.event_ticker = markets[f].event_ticker)

\* getNextEventMarkets: the markets of the event whose first market expires
\* earliest in the future; groups are visited in order of first appearance.
getNextEventMarkets(markets) ==
    LET evs == {markets[i].event_ticker : i \in DOMAIN markets} \ {""}
        first(ev) == CHOOSE i \in DOMAIN markets :
                        /\ markets[i].event_ticker = ev
                        /\ \A j \in 1..(i - 1) : markets[j].event_ticker # ev
        exp(ev) == parseExpiration(markets[first(ev)])
        live == {ev \in evs : exp(ev) # 0 /\ exp(ev) > Now}
    IN IF live = {} THEN <<>>
       ELSE LET earliest == CHOOSE ev \in live : \A o \in live :
                                \/ exp(ev) < exp(o)
                                \/ exp(ev) = exp(o) /\ first(ev) <= first(o)
            IN SelectSeq(markets, LAMBDA m : m.event_ticker = earliest)

\* The sort key of pickBestMarket,
\*   0.7 * distanceFromPrice / currentPrice + 0.3 * timeToExpiry / 3600000,
\* scaled by 36000 * currentPrice to the integer
\*   25200 * distance + 3 * seconds * currentPrice,
\* and held as <<high, low>> in base 10000 to stay within 32-bit integers.
MarketScore(m, currentPrice) ==
    LET d == parseStrikePrice(m) - currentPrice
        dist == IF d < 0 THEN 0 - d ELSE d
        t == parseExpiration(m) - Now
        a == 252 * dist
        b == 3 * t * (currentPrice % 10000)
        lo == ((a % 100) * 100) + (b % 10000)
        hi == (a \div 100) + (3 * t * (currentPrice \div 10000)) + (b \div 10000)
                + (lo \div 10000)
    IN <<hi, lo % 10000>>

\* scoreA - scoreB < 0 in the comparator of the sort.
ScoreLess(sa, sb) == sa[1] < sb[1] \/ (sa[1] = sb[1] /\ sa[2] < sb[2])

\* A variant of pickBestMarket that does not drop the markets that have
\* already settled.
pickBestMarketNoTimeFilter(markets, currentPrice) ==
    IF Len(markets) = 0 \/ currentPrice = 0 THEN NullMarket
    ELSE LET cand == {i \in DOMAIN markets :
                        /\ parseStrikePrice(markets[i]) # 0
                        /\ parseExpiration(markets[i]) # 0}
             score(i) == MarketScore(markets[i], currentPrice)
         IN IF cand = {} THEN NullMarket
            ELSE markets[CHOOSE i \in cand : \A j \in cand :
                            \/ ScoreLess(score(i), score(j))
                            \/ ~ScoreLess(score(j), score(i)) /\ i <= j]

\* A variant of pickBestMarket that does not sort the candidates.
pickBestMarketUnsorted(markets, currentPrice) ==
    IF Len(markets) = 0 \/ currentPrice = 0 THEN NullMarket
    ELSE LET cand == {i \in DOMAIN markets :
                        /\ parseStrikePrice(markets[i]) # 0
                        /\ parseExpiration(markets[i]) # 0
                        /\ parseExpiration(markets[i]) > Now}
         IN IF cand = {} THEN NullMarket
            ELSE markets[CHOOSE i \in cand : \A j \in cand : i <= j]

\* pickBestMarket: the first market of lowest score among those with a strike
\* and a future expiration (the sort is stable); NullMarket stands for null.
pickBestMarket(markets, currentPrice) ==
    IF Len(markets) = 0 \/ currentPrice = 0 THEN NullMarket
    ELSE LET cand == {i \in DOMAIN markets :
                        /\ parseStrikePrice(markets[i]) # 0
                        /\ parseExpiration(markets[i]) # 0
                        /\ parseExpiration(markets[i]) > Now}
             score(i) == MarketScore(markets[i], currentPrice)
         IN IF cand = {} THEN NullMarket
            ELSE markets[CHOOSE i \in cand : \A j \in cand :
                            \/ ScoreLess(score(i), score(j))
                            \/ ~ScoreLess(score(j), score(i)) /\ i <= j]

(***************************************************************************)
(* calculatePrediction of runner-late.js and runner.js (the same code).    *)
(* ta is [present, upProbability, delta1m]; confidence is computed in      *)
(* hundredths of a point and rounded as Math.round does.                   *)
(***************************************************************************)
NoTa == [present |-> FALSE, upProbability |-> 0, delta1m |-> 0]

calculatePrediction(currentPrice, strikePrice, ta, expiresInMinutes) ==
    IF currentPrice = 0 \/ strikePrice = 0
    THEN [side |-> "null", confidence |-> 0, isAboveStrike |-> FALSE]
    ELSE
    LET priceDistance == currentPrice - strikePrice
        absDistance == IF priceDistance < 0 THEN 0 - priceDistance ELSE priceDistance
        isAboveStrike == priceDistance > 0
        priceWeight == IF expiresInMinutes <= 5 THEN 95
                       ELSE IF expiresInMinutes <= 10 THEN 85
                       ELSE IF expiresInMinutes <= 20 THEN 70
                       ELSE 50
        taWeight == 100 - priceWeight
        \* priceDistancePct >= 0.5, 0.2, 0.1 with priceDistancePct = |d| / strike * 100
        priceConfidence == IF absDistance * 1000 >= 5 * strikePrice THEN 90
                           ELSE IF absDistance * 1000 >= 2 * strikePrice THEN 75
                           ELSE IF absDistance * 1000 >= strikePrice THEN 60
                           ELSE 50
        taUp == ta.upProbability
        hasTa == ta.present /\ taUp # 0
        taAdjustment == IF ~hasTa THEN 0
                        ELSE IF isAboveStrike /\ taUp > 55 THEN 5
                        ELSE IF isAboveStrike /\ taUp < 45 THEN -10
                        ELSE IF ~isAboveStrike /\ taUp < 45 THEN 5
                        ELSE IF ~isAboveStrike /\ taUp > 55 THEN -10
                        ELSE 0
        hasDelta == ta.present /\ ta.delta1m # 0
        movingUp == ta.delta1m > 0
        momentumAdjustment == IF ~hasDelta THEN 0
                              ELSE IF isAboveStrike = movingUp THEN 3
                              ELSE -5
        baseConfidence == priceConfidence * priceWeight + 50 * taWeight
        finalConfidence == Max(3000, Min(9500,
                              baseConfidence + 100 * (taAdjustment + momentumAdjustment)))
    IN [side |-> IF isAboveStrike THEN "yes" ELSE "no",
        confidence |-> (finalConfidence + 50) \div 100,
        isAboveStrike |-> isAboveStrike]

\* A variant of calculatePositionSize that forgets the upper clamp.
calculatePositionSizeNoCap(balanceCents, pricePerContract) ==
    IF balanceCents = 0 \/ pricePerContract = 0 THEN minContracts
    ELSE Max(minContracts,
             (balanceCents * positionSizePct) \div (100 * pricePerContract))

\* calculatePositionSize(balanceDollars, pricePerContract) of runner-late.js;
\* the balance is given in cents.
calculatePositionSize(balanceCents, pricePerContract) ==
    IF balanceCents = 0 \/ pricePerContract = 0 THEN minContracts
    ELSE LET contracts == (balanceCents * positionSizePct) \div (100 * pricePerContract)
         IN Max(minContracts, Min(maxContracts, contracts))

(***************************************************************************)
(* calculatePrediction of tool.js.  As in calculatePrediction above, ta is *)
(* [present, upProbability, delta1m], here with delta5m (dollars) too;     *)
(* orderbook is [present, yesLiquidity, noLiquidity].  Scores are in       *)
(* hundredths of a point, weights in percent.                              *)
(***************************************************************************)
NoTaTool == [present |-> FALSE, upProbability |-> 0, delta1m |-> 0, delta5m |-> 0]

NoOrderbook == [present |-> FALSE, yesLiquidity |-> 0, noLiquidity |-> 0]

\* A variant of the time bands whose boundary minutes belong to the farther band.
toolPriceWeightOpenBands(expiresInMinutes) ==
    IF expiresInMinutes < 5 THEN 95
    ELSE IF expiresInMinutes < 15 THEN 80
    ELSE IF expiresInMinutes < 30 THEN 60
    ELSE 40

toolPriceWeight(expiresInMinutes) ==
    IF expiresInMinutes <= 5 THEN 95
    ELSE IF expiresInMinutes <= 15 THEN 80
    ELSE IF expiresInMinutes <= 30 THEN 60
    ELSE 40

toolTaWeight(expiresInMinutes) ==
    IF expiresInMinutes <= 5 THEN 5
    ELSE IF expiresInMinutes <= 15 THEN 20
    ELSE IF expiresInMinutes <= 30 THEN 40
    ELSE 60

\* priceScore: 50, then overwritten for priceDistancePct > 0.5, > 1.0, > 2.0.
toolPriceScore(currentPrice, strikePrice) ==
    LET d == currentPrice - strikePrice
        absDistance == IF d < 0 THEN 0 - d ELSE d
        isAboveStrike == d > 0
    IN IF absDistance * 100 > 2 * strikePrice THEN (IF isAboveStrike THEN 95 ELSE 5)
       ELSE IF absDistance * 100 > strikePrice THEN (IF isAboveStrike THEN 85 ELSE 15)
       ELSE IF absDistance * 1000 > 5 * strikePrice THEN (IF isAboveStrike THEN 75 ELSE 25)
       ELSE 50

toolTaScore(ta) ==
    IF ta.present /\ ta.upProbability # 0 THEN ta.upProbability ELSE 50

toolMomentumAdj(isAboveStrike, ta) ==
    IF ~ta.present \/ ta.delta1m = 0 THEN 0
    ELSE IF isAboveStrike = (ta.delta1m > 0) THEN 5
    ELSE -5

\* yesBias = yesLiq / total compared with 0.6 and 0.4.
toolOrderbookAdj(orderbook) ==
    LET total == orderbook.yesLiquidity + orderbook.noLiquidity
    IN IF ~orderbook.present \/ total <= 0 THEN 0
       ELSE IF orderbook.yesLiquidity * 10 > 6 * total THEN 3
       ELSE IF orderbook.yesLiquidity * 10 < 4 * total THEN -3
       ELSE 0

toolVolatilityPenalty(ta) ==
    LET absMove == IF ta.delta5m < 0 THEN 0 - ta.delta5m ELSE ta.delta5m
    IN IF ~ta.present \/ ta.delta5m = 0 THEN 0
       ELSE IF absMove > 400 THEN 20
       ELSE IF absMove > 200 THEN 10
       ELSE 0

\* A variant of the final confidence without its clamp.
toolFinalConfidenceNoClamp(combinedScore, volatilityPenalty) ==
    combinedScore - 100 * volatilityPenalty

\* Math.max(10, Math.min(95, combinedScore - volatilityPenalty)), in hundredths.
toolFinalConfidence(combinedScore, volatilityPenalty) ==
    Max(1000, Min(9500, combinedScore - 100 * volatilityPenalty))

calculatePredictionTool(currentPrice, strikePrice, ta, expiresInMinutes, orderbook) ==
    IF currentPrice = 0 \/ strikePrice = 0
    THEN [side |-> "null", confidence |-> 0, weights |-> [ta |-> 0, price |-> 0]]
    ELSE
    LET isAboveStrike == currentPrice - strikePrice > 0
        taWeight == toolTaWeight(expiresInMinutes)
        priceWeight == toolPriceWeight(expiresInMinutes)
        combinedScore == toolPriceScore(currentPrice, strikePrice) * priceWeight
                         + toolTaScore(ta) * taWeight
                         + 100 * toolMomentumAdj(isAboveStrike, ta)
                         + 100 * toolOrderbookAdj(orderbook)
        finalConfidence == toolFinalConfidence(combinedScore, toolVolatilityPenalty(ta))
        side == IF finalConfidence > 5000 THEN "YES" ELSE "NO"
        confidence == IF side = "YES" THEN finalConfidence ELSE 10000 - finalConfidence
    IN [side |-> side,
        confidence |-> (confidence + 50) \div 100,
        weights |-> [ta |-> taWeight, price |-> priceWeight]]

(***************************************************************************)
(* generateRecommendation of the watch-mode program.  Prices are in cents; *)
(* a confidence is kept as its product with the strike, so that the        *)
(* percentages of the code need no division before they are compared.      *)
(* ta is [present, bias, upProbability, downProbability]; market is        *)
(* [present, ticker, yesAsk, yesBid, noAsk, noBid] with 0 for a missing    *)
(* price; expiration is the number of minutes left, -1 without one.        *)
(***************************************************************************)
NoRecommendation(reason, ticker) ==
    [action |-> "NO_TRADE", reason |-> reason, ticker |-> ticker, side |-> "null",
     confidence |-> 0, edge |-> 0, urgency |-> "none"]

generateRecommendation(currentPrice, strikePrice, market, ta, expiration) ==
    IF currentPrice = 0 \/ strikePrice = 0 \/ ~market.present
    THEN NoRecommendation("Missing price or market data", "null")
    ELSE
    LET priceDistance == currentPrice - strikePrice
        absDistance == IF priceDistance < 0 THEN -priceDistance ELSE priceDistance
        \* Math.abs(priceDistancePct) > 0.5
        farFromStrike == absDistance * 200 > strikePrice
        taBias == IF ta.present THEN ta.bias ELSE "NEUTRAL"
        upProb == IF ta.present /\ ta.upProbability # 0 THEN ta.upProbability ELSE 50
        downProb == IF ta.present /\ ta.downProbability # 0 THEN ta.downProbability ELSE 50
        agree == \/ priceDistance > 0 /\ taBias = "UP"
                 \/ priceDistance < 0 /\ taBias = "DOWN"
        \* 229-256: agreement; else the price position when far from the
        \* strike; else the bias of the technical analysis.
        side == IF agree \/ farFromStrike
                THEN (IF priceDistance > 0 THEN "YES" ELSE "NO")
                ELSE (IF taBias = "UP" THEN "YES" ELSE "NO")
        \* confidence * strikePrice
        confidence ==
            IF agree
            THEN Min(95 * strikePrice,
                     50 * strikePrice + absDistance * 500
                       + ((IF priceDistance > 0 THEN upProb ELSE downProb) - 50) * strikePrice)
            ELSE IF farFromStrike
            THEN LET c == Min(80 * strikePrice, 40 * strikePrice + absDistance * 1000)
                 IN IF taBias # "NEUTRAL"
                    THEN Max(30 * strikePrice, c - 20 * strikePrice)
                    ELSE c
            ELSE Min(70, 40 + (IF upProb < downProb THEN downProb - upProb
                               ELSE upProb - downProb)) * strikePrice
        rounded == (2 * confidence + strikePrice) \div (2 * strikePrice)
        modelProb == IF side = "YES" THEN upProb ELSE downProb
        marketPrice ==
            IF side = "YES"
            THEN (IF market.yesAsk # 0 THEN market.yesAsk
                  ELSE IF market.yesBid # 0 THEN market.yesBid ELSE 50)
            ELSE (IF market.noAsk # 0 THEN market.noAsk
                  ELSE IF market.noBid # 0 THEN market.noBid ELSE 50)
        edge == modelProb - marketPrice
        urgency == IF expiration # -1 /\ expiration < 15 THEN "HIGH"
                   ELSE IF expiration # -1 /\ expiration < 30 THEN "MEDIUM"
                   ELSE "LOW"
    IN IF ~agree /\ ~farFromStrike /\ taBias = "NEUTRAL"
       THEN NoRecommendation("No clear edge", market.ticker)
       ELSE IF confidence < 40 * strikePrice \/ edge < -5
       THEN [action |-> "NO_TRADE", reason |-> "Low confidence or negative edge",
             ticker |-> market.ticker, side |-> side, confidence |-> rounded,
             edge |-> edge, urgency |-> "none"]
       ELSE [action |-> "BUY", reason |-> "none", ticker |-> market.ticker,
             side |-> side, confidence |-> rounded, edge |-> edge,
             urgency |-> urgency]

(***************************************************************************)
(* One cycle: runTrade.  The five (runner.js: four) fetches of Promise.all *)
(* have been joined and their results are in inp; a failed fetch has left  *)
(* its default ({} -> price 0, [] -> no candles / markets, null -> 0).     *)
(***************************************************************************)
\* A variant that takes the reference price from the spot fetch only.
currentPriceSpotOnly == inp.spot

\* spotData.price || ticker.price
currentPrice == IF inp.spot # 0 THEN inp.spot ELSE inp.tick

nextEventMarkets == getNextEventMarkets(inp.markets)

bestMarket == pickBestMarket(nextEventMarkets, currentPrice)

strikePrice == parseStrikePrice(bestMarket)

\* Math.round((expiration - Date.now()) / 60000), or 999 without expiration.
expiresInMinutes ==
    IF parseExpiration(bestMarket) = 0 THEN 999
    ELSE (parseExpiration(bestMarket) - Now + 30) \div 60

\* ta is built only from more than 10 candles; upProbability is clamped to 30..70.
taOfCandles ==
    IF inp.candles.n > 10
    THEN [present |-> TRUE,
          upProbability |-> Max(30, Min(70, inp.candles.taUp)),
          delta1m |-> inp.candles.d1]
    ELSE NoTa

prediction == calculatePrediction(currentPrice, strikePrice, taOfCandles, expiresInMinutes)

distanceFromStrike ==
    IF currentPrice < strikePrice THEN strikePrice - currentPrice
    ELSE currentPrice - strikePrice

\* runner-late: the confidence after the 3-candle momentum penalty.
adjustedConfidence ==
    LET movingTowardStrike ==
            \/ prediction.isAboveStrike /\ inp.candles.mom < 0
            \/ ~prediction.isAboveStrike /\ inp.candles.mom > 0
    IN IF inp.candles.n >= 3 /\ movingTowardStrike
       THEN prediction.confidence - momentumPenalty
       ELSE prediction.confidence

\* runner-late: (high - low) / currentPrice * 100 > maxVolatility over 5 candles.
volatilityTooHigh ==
    /\ inp.candles.n >= 5
    /\ inp.candles.range * 1000 > maxVolatilityPermille * currentPrice

askPrice == IF prediction.side = "yes" THEN bestMarket.yes_ask ELSE bestMarket.no_ask

\* The first check of a chain that hits gives the reason runTrade returns with;
\* "ordered" when none hits and the code reaches placeOrder.
FirstVeto(chain) ==
    LET c == chain
        hits == {i \in DOMAIN c : c[i].hit}
    IN IF hits = {} THEN "ordered"
       ELSE c[CHOOSE i \in hits : \A j \in hits : i <= j].reason

Check(hit, reason) == [hit |-> hit, reason |-> reason]

\* A variant of the checks of runner-late in which the confidence is tested
\* before the volatility.
LateChecksConfidenceFirst ==
    << Check(currentPrice = 0, "no_price"),
       Check(Len(nextEventMarkets) = 0, "no_markets"),
       Check(bestMarket = NullMarket, "no_suitable_market"),
       Check(distanceFromStrike < coinFlipThreshold * CentsPerDollar, "coin_flip"),
       Check(prediction.side = "null", "no_side"),
       Check(adjustedConfidence < LateMinConfidence, "low_confidence"),
       Check(volatilityTooHigh, "high_volatility"),
       Check(askPrice = 0 \/ askPrice >= LateAskCeiling, "ask_unavailable"),
       Check(inp.balance = 0, "no_balance") >>

\* A variant of the checks of runner-late without the check of the balance.
LateChecksNoBalance ==
    << Check(currentPrice = 0, "no_price"),
       Check(Len(nextEventMarkets) = 0, "no_markets"),
       Check(bestMarket = NullMarket, "no_suitable_market"),
       Check(distanceFromStrike < coinFlipThreshold * CentsPerDollar, "coin_flip"),
       Check(volatilityTooHigh, "high_volatility"),
       Check(prediction.side = "null", "no_side"),
       Check(adjustedConfidence < LateMinConfidence, "low_confidence"),
       Check(askPrice = 0 \/ askPrice >= LateAskCeiling, "ask_unavailable") >>

\* The if (...) { notify(...); return; } statements of runTrade in
\* runner-late.js, in the order of the code.
LateChecks ==
    << Check(currentPrice = 0, "no_price"),
       Check(Len(nextEventMarkets) = 0, "no_markets"),
       Check(bestMarket = NullMarket, "no_suitable_market"),
       Check(distanceFromStrike < coinFlipThreshold * CentsPerDollar, "coin_flip"),
       Check(volatilityTooHigh, "high_volatility"),
       Check(prediction.side = "null", "no_side"),
       Check(adjustedConfidence < LateMinConfidence, "low_confidence"),
       Check(askPrice = 0 \/ askPrice >= LateAskCeiling, "ask_unavailable"),
       Check(inp.balance = 0, "no_balance") >>

\* The same statements of runTrade in runner.js.
RunnerChecks ==
    << Check(currentPrice = 0, "no_price"),
       Check(Len(nextEventMarkets) = 0, "no_markets"),
       Check(bestMarket = NullMarket, "no_suitable_market"),
       Check(prediction.side = "null", "no_side"),
       Check(prediction.confidence < RunnerMinConfidence, "low_confidence"),
       Check(askPrice = 0 \/ askPrice >= RunnerAskCeiling, "ask_unavailable") >>

VetoReasons == {"no_price", "no_markets", "no_suitable_market", "coin_flip",
                "high_volatility", "no_side", "low_confidence", "ask_unavailable",
                "no_balance"}

\* A variant of runTrade whose too-low-confidence branch lacks its return.
SubmitsDespiteLowConfidence(reason) == reason \in {"ordered", "low_confidence"}

\* Every veto branch of runTrade ends with return; placeOrder is reached only
\* when no check hit.
Submits(reason) == reason = "ordered"

\* The "Prediction: BUY <side> @ <confidence>%" line is notified once a market
\* has been selected, before the first risk check.
Decided(reason) == reason \notin {"no_price", "no_markets", "no_suitable_market"}

\* What runTrade does between the joined fetches and the awaited placeOrder.
RunTradeWith(reason, args) ==
    /\ pc = "fetched"
    /\ report' = [reason |-> reason,
                  side |-> IF Decided(reason) THEN prediction.side ELSE "none",
                  confidence |-> IF Decided(reason) THEN prediction.confidence ELSE 0,
                  decided |-> Decided(reason)]
    /\ IF Submits(reason)
       THEN /\ order' = args
            /\ placeOrder(args, 0)
            /\ pc' = "ordering"
       ELSE /\ pc' = "done"
            /\ UNCHANGED <<order, reqState, promise, sent>>
    /\ UNCHANGED <<fnVars, schedVars, variant, creds, handler, events, inp>>

\* runTrade of runner-late.js.
RunTradeLate ==
    /\ variant = "late"
    /\ RunTradeWith(FirstVeto(LateChecks),
                    [ticker |-> bestMarket.ticker, side |-> prediction.side,
                     count |-> calculatePositionSize(inp.balance, askPrice),
                     price |-> askPrice])

\* runTrade of runner.js.
RunTradeRunner ==
    /\ variant = "runner"
    /\ RunTradeWith(FirstVeto(RunnerChecks),
                    [ticker |-> bestMarket.ticker, side |-> prediction.side,
                     count |-> RunnerContractCount, price |-> askPrice])

(***************************************************************************)
(* The fetched data a cycle is run on.                                     *)
(***************************************************************************)
Mk(ticker, ev, strike, close, yes, no) ==
    [NullMarket EXCEPT !.ticker = ticker, !.event_ticker = ev, !.tickerNum = strike,
                       !.close_time = close, !.yes_ask = yes, !.no_ask = no]

Minutes(k) == 60 * k

\* The hourly market of the README example: strike 78,749.99.
MarketA(close, yes, no) == Mk("KXBTCD-T78749.99", "EV1", 7874999, close, yes, no)

CycleMarkets ==
    { <<>>,
      \* only an event that has already closed
      << MarketA(Now - Minutes(1), 62, 40) >>,
      \* a future event whose only market carries no usable strike
      << [NullMarket EXCEPT !.ticker = "KXBTCD-X", !.event_ticker = "EV1",
                            !.titleNum = 3100, !.close_time = Now + Minutes(44)] >>,
      << MarketA(Now + Minutes(44), 62, 40) >>,
      \* two strikes in the next event, and a later event
      << Mk("KXBTCD-T79249.99", "EV1", 7924999, Now + Minutes(5), 20, 82),
         MarketA(Now + Minutes(5), 62, 40),
         [NullMarket EXCEPT !.ticker = "KXBTCD-L", !.event_ticker = "EV2",
                            !.floor_strike = 7874999,
                            !.expiration_time = Now + Minutes(65),
                            !.yes_ask = 50, !.no_ask = 50] >>,
      \* no offer on one side, a settled-looking offer on the other
      << MarketA(Now + Minutes(5), 100, 0) >>,
      << MarketA(Now + Minutes(5), 99, 99) >>,
      << MarketA(Now + Minutes(5), 96, 5) >> }

\* [spot, ticker] prices in cents; 0: that fetch failed.
PricePairs ==
    { <<0, 0>>, <<7877137, 0>>, <<7875499, 0>>, <<7876999, 0>>,
      <<7950000, 0>>, <<0, 7860000>>, <<7877137, 7860000>> }

CandleScenarios ==
    {NoCandles}
    \cup {[n |-> 4, range |-> 0, mom |-> mo, d1 |-> 0, taUp |-> 50] : mo \in {-1, 1}}
    \cup {[n |-> 5, range |-> r, mom |-> mo, d1 |-> 0, taUp |-> 50] :
              r \in {10000, 70000}, mo \in {-1, 0, 1}}
    \cup {[n |-> 30, range |-> r, mom |-> x[1], d1 |-> x[2], taUp |-> x[3]] :
              r \in {10000, 70000},
              x \in {<<-1, -1, 40>>, <<1, 1, 60>>, <<-1, 1, 60>>, <<1, 0, 40>>}}

\* fetchBalance: null (0) without usable credentials or when the request
\* fails; runner.js does not fetch the balance.
Balances(v, c) ==
    IF v = "late" /\ c = "ok" THEN {0, 5000, 2000000} ELSE {0}

CycleInit ==
    /\ SchedIdle
    /\ FnIdle
    /\ OrderIdle
    /\ order = NoOrder
    /\ pc = "fetched"
    /\ report = NoReport
    /\ variant \in {"late", "runner"}
    /\ creds \in {"none", "ok", "badkey"}
    /\ inp \in {[spot |-> pr[1], tick |-> pr[2], markets |-> m, candles |-> c,
                 balance |-> b] :
                   pr \in PricePairs, m \in CycleMarkets, c \in CandleScenarios,
                   b \in Balances(variant, creds)}

CycleNext ==
    \/ RunTradeLate
    \/ RunTradeRunner
    \/ ResponseEnd
    \/ ErrorEvent
    \/ TimeoutEvent
    \/ Retry

SpecCycle == CycleInit /\ [][CycleNext]_vars

(***************************************************************************)
(* Claims about placeOrder.                                                *)
(***************************************************************************)
\* What the spec calls a transient failure of one submission: a non-2xx
\* response, a network error, or a timeout.
TransientEvents == {"non2xx", "non2xx_badjson", "neterr", "timeout", "timeout_error"}

\* Every submission made so far failed transiently, and there was one.
AllFailedTransiently ==
    /\ events[0] # "none"
    /\ \A i \in Attempts : events[i] \in TransientEvents \cup {"none"}

(***************************************************************************)
(* C2: when every submission of one placeOrder call fails transiently,     *)
(* the call ends only after exactly maxRetries additional submissions,     *)
(* as a failure carrying the error of the last one, and never more than    *)
(* maxRetries + 1 requests are written.                                    *)
(***************************************************************************)
C2_ExactlyMaxRetriesThenExhausted ==
    /\ Len(sent) <= maxRetries + 1
    /\ (promise[0] # Pending /\ AllFailedTransiently) =>
          /\ Len(sent) = maxRetries + 1
          /\ promise[0].kind \in FailureKinds
          /\ promise[0].from = maxRetries

(***************************************************************************)
(* C3: if the first k-1 submissions fail with network errors and           *)
(* submission k succeeds (k <= maxRetries + 1), placeOrder resolves with   *)
(* success after exactly k submissions.                                    *)
(***************************************************************************)
C3_SuccessAfterNetworkErrors ==
    \A k \in 1..(maxRetries + 1) :
        ((\A j \in 0..(k - 2) : events[j] = "neterr") /\ events[k - 1] = "ok2xx") =>
            /\ promise[0] = Outcome("success", k - 1)
            /\ Len(sent) = k
            /\ InFlight = {}

\* Two network errors, then the third submission is accepted.
C3_Witness ==
    /\ events = [i \in Attempts |-> IF i < maxRetries THEN "neterr" ELSE "ok2xx"]
    /\ promise[0].kind = "success"
    /\ Len(sent) = maxRetries + 1

(***************************************************************************)
(* C4: a timeout of a submission is handled like a network error: below    *)
(* the retry ceiling the order is resubmitted, and a timeout failure is    *)
(* reported only by the last attempt.                                      *)
(***************************************************************************)
C4_TimeoutRetriedLikeNetworkError ==
    \A i \in Attempts :
        promise[i] = Outcome("fail_timeout", i) => i = maxRetries

(***************************************************************************)
(* C5: at most one order request is in flight at any time; a retry is      *)
(* written only after the request of the previous attempt has ended        *)
(* (response read, error, or destroyed by the timeout callback).           *)
(***************************************************************************)
C5_OneSubmissionInFlight ==
    /\ Cardinality(InFlight) <= 1
    /\ \A i \in 1..maxRetries :
          reqState[i] # "unused" => reqState[i - 1] \in {"ended", "destroyed"}

\* A retry is in flight that was started by the error event which followed
\* the destruction of the timed-out first request.
C5_Witness ==
    /\ events[0] = "timeout_error"
    /\ reqState[1] = "inflight"

(***************************************************************************)
(* Claims about runTrade.                                                  *)
(***************************************************************************)
\* The conditions of the risk gate, stated on the fetched data.
MissingData == currentPrice = 0 \/ bestMarket = NullMarket

TooCloseToCall == distanceFromStrike < 20 * CentsPerDollar

LateLowConfidence == adjustedConfidence < LateMinConfidence

LateBadAsk == askPrice = 0 \/ askPrice >= LateAskCeiling

\* No veto of the risk gate of runner-late.js applies.
LateGatePasses ==
    /\ ~MissingData
    /\ ~TooCloseToCall
    /\ ~volatilityTooHigh
    /\ ~LateLowConfidence
    /\ ~LateBadAsk

\* No veto of runner.js applies.
RunnerGatePasses ==
    /\ ~MissingData
    /\ prediction.confidence >= RunnerMinConfidence
    /\ askPrice # 0
    /\ askPrice < RunnerAskCeiling

\* placeOrder has not been called and nothing was written to the venue.
NoOrderAttempt ==
    /\ sent = <<>>
    /\ promise[0] = Pending
    /\ \A i \in Attempts : reqState[i] = "unused"

(***************************************************************************)
(* C6: a cycle that ends in a veto never calls placeOrder and sends no     *)
(* order request (both runners).                                           *)
(***************************************************************************)
C6_VetoedCycleSendsNoOrder ==
    (pc # "fetched" /\ report.reason \in VetoReasons) =>
        /\ pc = "done"
        /\ NoOrderAttempt

\* A cycle was vetoed for its confidence.
C6_Witness ==
    /\ pc = "done"
    /\ report.reason = "low_confidence"
    /\ sent = <<>>

(***************************************************************************)
(* C7: in runner-late, a reference price closer than 20 dollars to the     *)
(* strike vetoes the cycle as a coin flip and no order is submitted,       *)
(* whatever the confidence, the volatility and the ask price are.          *)
(***************************************************************************)
C7_TooCloseToCallVetoes ==
    (variant = "late" /\ pc # "fetched" /\ ~MissingData /\ TooCloseToCall) =>
        /\ report.reason = "coin_flip"
        /\ pc = "done"
        /\ NoOrderAttempt

\* A coin-flip veto of a cycle that every other check would have let through.
C7_Witness ==
    /\ variant = "late"
    /\ pc = "done"
    /\ report.reason = "coin_flip"
    /\ creds = "ok"
    /\ inp.balance # 0
    /\ ~volatilityTooHigh
    /\ ~LateLowConfidence
    /\ ~LateBadAsk

(***************************************************************************)
(* C8: when several veto conditions hold in one cycle of runner-late, the  *)
(* reported reason is the first in the order: missing price or market      *)
(* data, distance below the floor, volatility above the ceiling,           *)
(* confidence below the minimum, ask missing or at/above the ceiling.      *)
(***************************************************************************)
C8_FirstVetoInDocumentedOrder ==
    (variant = "late" /\ pc # "fetched") =>
        IF MissingData
        THEN report.reason \in {"no_price", "no_markets", "no_suitable_market"}
        ELSE IF TooCloseToCall THEN report.reason = "coin_flip"
        ELSE IF volatilityTooHigh THEN report.reason = "high_volatility"
        ELSE IF LateLowConfidence THEN report.reason = "low_confidence"
        ELSE IF LateBadAsk THEN report.reason = "ask_unavailable"
        ELSE report.reason \in {"no_balance", "ordered"}

\* Volatility, confidence and ask would all veto; the volatility is reported.
C8_Witness ==
    /\ variant = "late"
    /\ pc = "done"
    /\ ~MissingData
    /\ ~TooCloseToCall
    /\ volatilityTooHigh
    /\ LateLowConfidence
    /\ LateBadAsk
    /\ report.reason = "high_volatility"

(***************************************************************************)
(* C9: without credentials a cycle sends no order request, execution ends  *)
(* at once with the outcome "no credentials", and the cycle still reports  *)
(* the computed decision.  (As stated: refuted by runner-late.)            *)
(***************************************************************************)
C9_NoCredentialsOutcome ==
    (/\ creds = "none"
     /\ pc # "fetched"
     /\ IF variant = "late" THEN LateGatePasses ELSE RunnerGatePasses) =>
        /\ sent = <<>>
        /\ promise[0] = Outcome("no_credentials", 0)
        /\ report.decided

(***************************************************************************)
(* C9 as amended: without credentials a cycle sends no order request and   *)
(* still reports the computed decision; in runner.js execution ends at     *)
(* once with "no credentials", while in runner-late the cycle ends before  *)
(* execution with the balance-unavailable skip.                            *)
(***************************************************************************)
C9_NoCredentialsNoOrder ==
    (creds = "none" /\ pc # "fetched") =>
        /\ sent = <<>>
        /\ InFlight = {}
        /\ ~MissingData =>
              /\ report.decided
              /\ report.side = prediction.side
              /\ report.confidence = prediction.confidence
        /\ (variant = "runner" /\ RunnerGatePasses) =>
              /\ pc = "ordering"
              /\ promise[0] = Outcome("no_credentials", 0)
        /\ (variant = "late" /\ LateGatePasses) =>
              /\ pc = "done"
              /\ report.reason = "no_balance"
              /\ promise[0] = Pending

\* runner-late without credentials: the gate passed, the decision was
\* reported, and the cycle ended on the missing balance.
C9_Witness ==
    /\ creds = "none"
    /\ variant = "late"
    /\ LateGatePasses
    /\ report.decided
    /\ report.reason = "no_balance"

(***************************************************************************)
(* C10: if the balance cannot be retrieved, the runner-late cycle does not *)
(* abort: the order is sized at minContracts and the cycle proceeds to     *)
(* submission.  (As stated: refuted.)                                      *)
(***************************************************************************)
C10_BalanceFallbackProceeds ==
    (/\ variant = "late"
     /\ creds = "ok"
     /\ pc # "fetched"
     /\ inp.balance = 0
     /\ LateGatePasses) =>
        /\ report.reason = "ordered"
        /\ order.count = minContracts
        /\ Len(sent) >= 1

(***************************************************************************)
(* C10 as amended: if the balance cannot be retrieved, the runner-late     *)
(* cycle is aborted before submission (when the gate passes, with the      *)
(* balance-unavailable skip) and no order is sent; the fallback to         *)
(* minContracts exists only inside calculatePositionSize.                  *)
(***************************************************************************)
C10_NoBalanceAborts ==
    (variant = "late" /\ pc # "fetched" /\ inp.balance = 0) =>
        /\ pc = "done"
        /\ report.reason \in VetoReasons
        /\ NoOrderAttempt
        /\ LateGatePasses => report.reason = "no_balance"
        /\ calculatePositionSize(inp.balance, askPrice) = minContracts

\* Credentials are present, the balance request failed, the gate passed.
C10_Witness ==
    /\ variant = "late"
    /\ creds = "ok"
    /\ inp.balance = 0
    /\ LateGatePasses
    /\ pc = "done"
    /\ report.reason = "no_balance"

(***************************************************************************)
(* Scheduler of runner-late.js.                                            *)
(***************************************************************************)

\* notify(message) with NOTIFY_WEBHOOK set writes a request to the webhook.
Notified(p) == [p EXCEPT !.inflight = p.webhook]

\* The process just started with --daemon; startDaemon has notified its banner.
StartedDaemon(webhook) ==
    [state |-> "daemon", webhook |-> webhook, inflight |-> webhook, starts |-> 1,
     exitCode |-> -1, noExit |-> FALSE]

\* startDaemon: lastRunHour = -1; the process may be started at any wall-clock time.
DaemonInit ==
    /\ hour = 0
    /\ localHour \in {0, 1, 22, 23}
    /\ minute \in 0..(MinutesPerHour - 1)
    /\ second = 0
    /\ proc \in {StartedDaemon(w) : w \in BOOLEAN}
    /\ dstUsed = FALSE
    /\ lastRunHour = -1
    /\ firedThisHour = 0
    /\ pollsSinceFire = 0
    /\ running = 0
    /\ variant = "late"
    /\ creds = "ok"
    /\ order = NoOrder
    /\ OrderIdle
    /\ CycleIdle
    /\ FnIdle

\* The daemon of runner-late.js started without NOTIFY_WEBHOOK.
SchedInit ==
    /\ DaemonInit
    /\ ~proc.webhook

\* A variant of checkAndRun that forgets to record the hour it fired in.
checkAndRunNoMarker ==
    /\ proc.state = "daemon"
    /\ minute = LateRunAtMinute
    /\ firedThisHour' = firedThisHour + 1
    /\ running' = running + 1
    /\ pollsSinceFire' = 0
    /\ UNCHANGED <<hour, localHour, minute, dstUsed, lastRunHour>>
    /\ UNCHANGED <<second, proc, orderVars, cycleVars, fnVars>>

\* A variant of checkAndRun that leaves the marker alone when it calls
\* runTrade (the marker would be written only after the awaited call).
checkAndRunMarkerAfterAwait ==
    /\ proc.state = "daemon"
    /\ minute = LateRunAtMinute
    /\ lastRunHour # localHour
    /\ firedThisHour' = firedThisHour + 1
    /\ running' = running + 1
    /\ pollsSinceFire' = 0
    /\ proc' = Notified(proc)
    /\ UNCHANGED <<hour, localHour, minute, dstUsed, lastRunHour>>
    /\ UNCHANGED <<second, orderVars, cycleVars, fnVars>>

\* checkAndRun, the branch that triggers: minute === runAtMinute && lastRunHour !== hour.
\* lastRunHour is assigned before runTrade() is called.
checkAndRun ==
    /\ proc.state = "daemon"
    /\ minute = LateRunAtMinute
    /\ lastRunHour # localHour
    /\ lastRunHour' = localHour
    /\ firedThisHour' = firedThisHour + 1
    /\ running' = running + 1
    /\ pollsSinceFire' = 0
    /\ proc' = Notified(proc)
    /\ UNCHANGED <<hour, localHour, minute, dstUsed>>
    /\ UNCHANGED <<second, orderVars, cycleVars, fnVars>>

\* checkAndRun, the branch that does nothing (the if is false).
checkAndRunIdle ==
    /\ proc.state = "daemon"
    /\ ~(minute = LateRunAtMinute /\ lastRunHour # localHour)
    /\ pollsSinceFire' = IF minute = LateRunAtMinute /\ firedThisHour > 0
                         THEN Min(pollsSinceFire + 1, MaxPolls)
                         ELSE pollsSinceFire
    /\ UNCHANGED <<hour, localHour, minute, dstUsed, lastRunHour, firedThisHour, running>>
    /\ UNCHANGED <<second, proc, orderVars, cycleVars, fnVars>>

\* The awaited runTrade() of a triggered poll completes.
runTradeReturns ==
    /\ proc.state = "daemon"
    /\ running > 0
    /\ running' = running - 1
    /\ UNCHANGED <<hour, localHour, minute, dstUsed, lastRunHour, firedThisHour,
                   pollsSinceFire>>
    /\ UNCHANGED <<second, proc, orderVars, cycleVars, fnVars>>

\* Wall-clock time passes within the hour.
AdvanceMinute ==
    /\ minute < MinutesPerHour - 1
    /\ minute' = minute + 1
    /\ pollsSinceFire' = 0
    /\ UNCHANGED <<hour, localHour, dstUsed, lastRunHour, firedThisHour, running>>
    /\ UNCHANGED <<second, proc, orderVars, cycleVars, fnVars>>

\* The clock hour rolls over; the local label advances by one.
AdvanceHour ==
    /\ minute = MinutesPerHour - 1
    /\ hour < MaxHours
    /\ hour' = hour + 1
    /\ minute' = 0
    /\ localHour' = (localHour + 1) % HoursPerDay
    /\ firedThisHour' = 0
    /\ pollsSinceFire' = 0
    /\ UNCHANGED <<dstUsed, lastRunHour, running>>
    /\ UNCHANGED <<second, proc, orderVars, cycleVars, fnVars>>

\* The clock hour rolls over at a daylight-saving change: the local label
\* either repeats (fall back) or skips one (spring forward).
AdvanceHourDst ==
    /\ minute = MinutesPerHour - 1
    /\ hour < MaxHours
    /\ ~dstUsed
    /\ hour' = hour + 1
    /\ minute' = 0
    /\ \E shift \in {0, 2} : localHour' = (localHour + shift) % HoursPerDay
    /\ dstUsed' = TRUE
    /\ firedThisHour' = 0
    /\ pollsSinceFire' = 0
    /\ UNCHANGED <<lastRunHour, running>>
    /\ UNCHANGED <<second, proc, orderVars, cycleVars, fnVars>>

SchedNext ==
    \/ checkAndRun
    \/ checkAndRunIdle
    \/ runTradeReturns
    \/ AdvanceMinute
    \/ AdvanceHour
    \/ AdvanceHourDst

SpecSched == SchedInit /\ [][SchedNext]_vars

(***************************************************************************)
(* C1: in the runner-late daemon at most one runTrade is started per       *)
(* clock hour, however often checkAndRun is polled in the trigger minute.  *)
(***************************************************************************)
C1_AtMostOneFirePerHour == firedThisHour <= 1

\* A cycle was fired this hour and checkAndRun was polled again, several times,
\* in the same trigger minute.
C1_Witness ==
    /\ minute = LateRunAtMinute
    /\ firedThisHour = 1
    /\ pollsSinceFire >= 2

(***************************************************************************)
(* Pure functions, called on their own.  The rest of the program is idle.  *)
(***************************************************************************)
ProgramIdle ==
    /\ SchedIdle
    /\ CycleIdle
    /\ OrderIdle
    /\ order = NoOrder
    /\ variant = "late"
    /\ creds = "ok"

\* A call returns: only call and ret change.
Returns(result) ==
    /\ ret = NoCall
    /\ ret' = result
    /\ UNCHANGED <<call, schedVars, orderVars, cycleVars>>

(***************************************************************************)
(* calculatePositionSize.                                                  *)
(***************************************************************************)
\* Balances in cents (0: fetchBalance gave null).
SizeBalances == {0, 1, 9, 10, 99, 100, 990, 1000, 5000, 12345, 98999, 99000,
                 99010, 500000, 2000000}

SizeInit ==
    /\ ProgramIdle
    /\ ret = NoCall
    /\ call \in [fn : {"calculatePositionSize"}, balance : SizeBalances,
                  price : 0..MaxPricePerContract]

CallCalculatePositionSize ==
    /\ call.fn = "calculatePositionSize"
    /\ Returns([fn |-> "calculatePositionSize",
                contracts |-> calculatePositionSize(call.balance, call.price)])

SizeNext == CallCalculatePositionSize

SpecSize == SizeInit /\ [][SizeNext]_vars

(***************************************************************************)
(* C11: for every balance and price per contract calculatePositionSize     *)
(* returns a count between minContracts and maxContracts inclusive, equal  *)
(* to floor(balance in cents * positionSizePct / 100 / price) clamped to   *)
(* that range.                                                             *)
(***************************************************************************)
C11_PositionSizeClamped ==
    ret.fn = "calculatePositionSize" =>
        LET b == call.balance
            p == call.price
            n == ret.contracts
        IN /\ minContracts <= n
           /\ n <= maxContracts
           /\ p > 0 =>
                 \* n is the floor of b * pct / (100 * p), unless it was clamped
                 /\ n > minContracts => n * 100 * p <= b * positionSizePct
                 /\ n < maxContracts => b * positionSizePct < (n + 1) * 100 * p

\* A count strictly inside the range, which no clamp produced.
C11_Witness ==
    /\ ret.fn = "calculatePositionSize"
    /\ ret.contracts > minContracts
    /\ ret.contracts < maxContracts

(***************************************************************************)
(* Market selection: getNextEventMarkets, then pickBestMarket on its       *)
(* result, as runTrade and tool.js call them.                              *)
(***************************************************************************)
\* Markets of two events (or of none), without a usable strike or with one of
\* two strikes, closing never (no time field), now, in 5 minutes or in an hour.
SelectUniverse ==
    { Mk(tk[1], ev, tk[2], t, 62, 40) :
          tk \in {<<"KXBTCD-X", 0>>, <<"KXBTCD-T78749.99", 7874999>>,
                  <<"KXBTCD-T79249.99", 7924999>>},
          ev \in {"EV1", "EV2"},
          t \in {0, Now, Now + Minutes(5), Now + Minutes(60)} }
    \cup { Mk("KXBTCD-T78749.99", "", 7874999, Now + Minutes(5), 62, 40) }

SelectLists == UNION {[1..n -> SelectUniverse] : n \in 0..MaxMarkets}

SelectInit ==
    /\ ProgramIdle
    /\ ret = NoCall
    /\ call \in [fn : {"selectMarket"}, markets : SelectLists, price : {0, 7877137}]

CallGetNextEventMarkets ==
    /\ call.fn = "selectMarket"
    /\ Returns([fn |-> "getNextEventMarkets",
                markets |-> getNextEventMarkets(call.markets)])

CallPickBestMarket ==
    /\ ret.fn = "getNextEventMarkets"
    /\ ret' = [fn |-> "pickBestMarket", markets |-> ret.markets,
               best |-> pickBestMarket(ret.markets, call.price)]
    /\ UNCHANGED <<call, schedVars, orderVars, cycleVars>>

SelectNext == CallGetNextEventMarkets \/ CallPickBestMarket

SpecSelect == SelectInit /\ [][SelectNext]_vars

\* The settlement time of an event is that of its first market in the list
\* (0: the event has none).
EventSettlement(markets, ev) ==
    LET f == CHOOSE i \in DOMAIN markets :
                /\ markets[i].event_ticker = ev
                /\ \A j \in 1..(i - 1) : markets[j].event_ticker # ev
    IN parseExpiration(markets[f])

EventsOf(markets) == {markets[i].event_ticker : i \in DOMAIN markets} \ {""}

\* The markets handed to pickBestMarket that have a valid strike and settle
\* in the future.
Qualifying(markets) ==
    {i \in DOMAIN markets : /\ parseStrikePrice(markets[i]) # 0
                            /\ parseExpiration(markets[i]) > Now}

(***************************************************************************)
(* C12: the market selected by getNextEventMarkets followed by             *)
(* pickBestMarket settles strictly after the current time; a market that   *)
(* settles at or before now is never returned.                             *)
(***************************************************************************)
C12_SelectedMarketSettlesInFuture ==
    (ret.fn = "pickBestMarket" /\ ret.best # NullMarket) =>
        /\ parseExpiration(ret.best) > Now
        /\ \E i \in DOMAIN call.markets : call.markets[i] = ret.best

\* A market was selected from an event that also holds a market which has
\* already settled.
C12_Witness ==
    /\ ret.fn = "pickBestMarket"
    /\ ret.best # NullMarket
    /\ \E i \in DOMAIN ret.markets :
          /\ parseStrikePrice(ret.markets[i]) # 0
          /\ parseExpiration(ret.markets[i]) # 0
          /\ parseExpiration(ret.markets[i]) <= Now

(***************************************************************************)
(* C13: getNextEventMarkets returns the markets of the event whose         *)
(* settlement time is the earliest among the events that settle strictly   *)
(* in the future; an event whose settlement time has passed or is missing  *)
(* is never chosen, and the result is empty when no event settles in the   *)
(* future.                                                                 *)
(***************************************************************************)
C13_EarliestFutureEvent ==
    ret.fn = "getNextEventMarkets" =>
        LET ms == call.markets
            live == {ev \in EventsOf(ms) : EventSettlement(ms, ev) > Now}
        IN IF live = {} THEN ret.markets = <<>>
           ELSE \E ev \in live :
                   /\ \A o \in live : EventSettlement(ms, ev) <= EventSettlement(ms, o)
                   /\ ret.markets = SelectSeq(ms, LAMBDA m : m.event_ticker = ev)

\* The event listed second settles sooner than the one listed first and is
\* the one returned.
C13_Witness ==
    /\ ret.fn = "getNextEventMarkets"
    /\ Len(call.markets) >= 2
    /\ call.markets[1].event_ticker # call.markets[2].event_ticker
    /\ parseExpiration(call.markets[1]) > parseExpiration(call.markets[2])
    /\ parseExpiration(call.markets[2]) > Now
    /\ ret.markets # <<>>
    /\ ret.markets[1] = call.markets[2]

(***************************************************************************)
(* C14: among the markets passed to pickBestMarket that have a valid       *)
(* strike and a future settlement time, the returned market has the        *)
(* minimum score 0.7 * |strike - price| / price + 0.3 * hours to           *)
(* settlement; the result is null when no market qualifies or the          *)
(* reference price is unavailable.                                         *)
(***************************************************************************)
C14_MinimumScoreMarket ==
    ret.fn = "pickBestMarket" =>
        LET ms == ret.markets
            q == Qualifying(ms)
        IN IF call.price = 0 \/ q = {} THEN ret.best = NullMarket
           ELSE \E i \in q :
                   /\ ret.best = ms[i]
                   /\ \A j \in q : ~ScoreLess(MarketScore(ms[j], call.price),
                                               MarketScore(ms[i], call.price))

\* Two markets qualify and the second one, of strictly lower score, is returned.
C14_Witness ==
    /\ ret.fn = "pickBestMarket"
    /\ Len(ret.markets) >= 2
    /\ {1, 2} \subseteq Qualifying(ret.markets)
    /\ ScoreLess(MarketScore(ret.markets[2], call.price),
                 MarketScore(ret.markets[1], call.price))
    /\ ret.best = ret.markets[2]

(***************************************************************************)
(* The prediction functions called on their own.                           *)
(***************************************************************************)
\* <<currentPrice, strikePrice>> in cents: at, above and below the strike
\* 78,749.99 by 0.03% to 2.5%; 0: missing.
PredictionPrices ==
    { <<7874999 + d, 7874999>> :
          d \in {0, 2138, 10000, 20000, 50000, 100000, 200000,
                 -2138, -10000, -20000, -50000, -100000, -200000} }
    \cup { <<0, 7874999>>, <<7877137, 0>> }

PredictionMinutes == {5, 10, 15, 20, 30, 44}

PredictionTa(file) ==
    {NoTaTool}
    \cup [present : {TRUE}, upProbability : {10, 40, 50, 60, 90},
          delta1m : {-10, 0, 10},
          delta5m : IF file = "tool.js" THEN {0, 250, -450} ELSE {0}]

PredictionOrderbooks(file) ==
    {NoOrderbook}
    \cup (IF file = "tool.js"
          THEN [present : {TRUE}, yesLiquidity : {30, 70}, noLiquidity : {50}]
          ELSE {})

PredictInit ==
    /\ ProgramIdle
    /\ ret = NoCall
    /\ \E file \in {"tool.js", "runner-late.js"}, pr \in PredictionPrices :
          call \in [fn : {"calculatePrediction"}, file : {file},
                    currentPrice : {pr[1]}, strikePrice : {pr[2]},
                    ta : PredictionTa(file), minutes : PredictionMinutes,
                    orderbook : PredictionOrderbooks(file)]

\* What the calculatePrediction of the file of call c returns for c.
Predict(c) ==
    IF c.file = "tool.js"
    THEN LET r == calculatePredictionTool(c.currentPrice, c.strikePrice, c.ta,
                                          c.minutes, c.orderbook)
         IN [fn |-> "calculatePrediction", side |-> r.side,
             confidence |-> r.confidence, weights |-> r.weights]
    ELSE LET r == calculatePrediction(c.currentPrice, c.strikePrice, c.ta, c.minutes)
         IN [fn |-> "calculatePrediction", side |-> r.side,
             confidence |-> r.confidence, weights |-> [ta |-> 0, price |-> 0]]

\* calculatePrediction of runner-late.js (runner.js has the same function).
CallCalculatePrediction ==
    /\ call.fn = "calculatePrediction"
    /\ call.file = "runner-late.js"
    /\ Returns(Predict(call))

\* calculatePrediction of tool.js.
CallCalculatePredictionTool ==
    /\ call.fn = "calculatePrediction"
    /\ call.file = "tool.js"
    /\ Returns(Predict(call))

PredictNext == CallCalculatePrediction \/ CallCalculatePredictionTool

SpecPredict == PredictInit /\ [][PredictNext]_vars

\* calculatePrediction has returned a side for the call.
Predicted == ret.fn = "calculatePrediction" /\ ret.side # "null"

YesSides == {"yes", "YES"}

NoSides == {"no", "NO"}

\* The confidence a result gives to the side named: its own, or 100 minus that
\* of the opposite side.
ConfidenceFor(r, side) ==
    IF (r.side \in YesSides) = (side \in YesSides) THEN r.confidence
    ELSE 100 - r.confidence

\* The 1-minute momentum of the call moves the price away from / toward the strike.
MovingAway ==
    \/ call.currentPrice > call.strikePrice /\ call.ta.delta1m > 0
    \/ call.currentPrice < call.strikePrice /\ call.ta.delta1m < 0

MovingToward ==
    \/ call.currentPrice > call.strikePrice /\ call.ta.delta1m < 0
    \/ call.currentPrice < call.strikePrice /\ call.ta.delta1m > 0

AbsSwing(d) == IF d < 0 THEN 0 - d ELSE d

(***************************************************************************)
(* C15: in every variant of calculatePrediction, when no technical signal  *)
(* is supplied (ta is null), the side returned is the raw price-position   *)
(* side: yes when the price is above the strike, no when it is below.      *)
(***************************************************************************)
C15_SideIsPricePositionWithoutTa ==
    (Predicted /\ ~call.ta.present) =>
        /\ call.currentPrice > call.strikePrice => ret.side \in YesSides
        /\ call.currentPrice < call.strikePrice => ret.side \in NoSides

(***************************************************************************)
(* C16: whenever calculatePrediction (any variant) returns a side, its     *)
(* confidence lies in a fixed closed interval strictly inside [0, 100]:    *)
(* 30..95 (tool.js: 50..95), never 0 and never 100.                        *)
(***************************************************************************)
C16_ConfidenceStrictlyInside ==
    Predicted =>
        /\ ret.confidence >= 30
        /\ ret.confidence <= 95
        /\ call.file = "tool.js" => ret.confidence >= 50

\* tool.js reports the ceiling, for a score that would have exceeded it.
C16_Witness ==
    /\ Predicted
    /\ call.file = "tool.js"
    /\ ret.confidence = 95
    /\ call.ta.upProbability = 90
    /\ MovingAway
    /\ call.orderbook.yesLiquidity = 70

C18_MomentumNeverFlipsSide ==
    (Predicted /\ call.file = "tool.js" /\ call.ta.present) =>
        \A d \in {-10, 0, 10} :
            Predict([call EXCEPT !.ta.delta1m = d]).side = ret.side

(***************************************************************************)
(* C19: in every variant of calculatePrediction, all other inputs fixed,   *)
(* momentum moving the price away from the strike never lowers the         *)
(* confidence reported for the chosen side, and momentum moving the price  *)
(* toward the strike never raises it, for the yes and for the no side.     *)
(***************************************************************************)
C19_MomentumDirection ==
    (Predicted /\ call.ta.present) =>
        LET still == Predict([call EXCEPT !.ta.delta1m = 0])
        IN /\ MovingAway => ret.confidence >= ConfidenceFor(still, ret.side)
           /\ MovingToward => ret.confidence <= ConfidenceFor(still, ret.side)

(***************************************************************************)
(* C20: in calculatePrediction of tool.js, all other inputs fixed, a       *)
(* larger recent price swing (5-minute move above 200, above 400) never    *)
(* increases the confidence reported for the chosen side, yes or no.       *)
(***************************************************************************)
C20_SwingNeverRaisesConfidence ==
    (Predicted /\ call.file = "tool.js" /\ call.ta.present) =>
        \A smaller \in {0, 250, -450} :
            AbsSwing(smaller) < AbsSwing(call.ta.delta5m) =>
                ret.confidence <=
                    ConfidenceFor(Predict([call EXCEPT !.ta.delta5m = smaller]), ret.side)

(***************************************************************************)
(* End-to-end scenario A: reference price 78,771.37, strike 78,749.99, no  *)
(* technical signal, 44 minutes to settlement, credentials and balance     *)
(* available.                                                              *)
(***************************************************************************)
ScenarioA ==
    /\ variant = "late"
    /\ creds = "ok"
    /\ pc # "fetched"
    /\ inp.spot = 7877137
    /\ inp.markets = << MarketA(Now + Minutes(44), 62, 40) >>
    /\ inp.candles = NoCandles
    /\ inp.balance # 0

\* The venue accepted the first submission.
VenueAccepted == events[0] = "ok2xx"

(***************************************************************************)
(* C21: in scenario A the cycle chooses the side above (yes) with a        *)
(* confidence between 70 and 89, no veto fires, and with an accepting      *)
(* venue exactly one submission is made.                                   *)
(***************************************************************************)
C21_ScenarioA ==
    ScenarioA =>
        /\ report.side = "yes"
        /\ report.confidence >= 70
        /\ report.confidence <= 89
        /\ report.reason = "ordered"
        /\ VenueAccepted => Len(sent) = 1

(***************************************************************************)
(* C22: in the daemon at most one cycle (runTrade) is active at any time,  *)
(* however long the previous cycle takes.                                  *)
(***************************************************************************)
C22_AtMostOneActiveCycle == running <= 1

(***************************************************************************)
(* The daemon process of runner-late.js with its notifications, its        *)
(* failures and its restarts.                                              *)
(***************************************************************************)

\* The process is running: its callbacks can still be called.
ProcAlive == proc.state \in {"daemon", "single", "lingering"}

\* The webhook request written by notify completes.
WebhookDelivered ==
    /\ ProcAlive
    /\ proc.inflight
    /\ proc' = [proc EXCEPT !.inflight = FALSE]
    /\ UNCHANGED <<hour, localHour, minute, dstUsed, lastRunHour, firedThisHour,
                   pollsSinceFire, running, second>>
    /\ UNCHANGED <<orderVars, cycleVars, fnVars>>

\* The webhook request written by notify fails (DNS, refused connection,
\* reset): the request emits "error", notify registered no listener for it,
\* the event is thrown as an uncaught exception and node exits with code 1.
\* The cycles of the process end with it.
WebhookError ==
    /\ ProcAlive
    /\ proc.inflight
    /\ proc' = [proc EXCEPT !.state = "crashed", !.inflight = FALSE, !.exitCode = 1]
    /\ running' = 0
    /\ UNCHANGED <<hour, localHour, minute, dstUsed, lastRunHour, firedThisHour,
                   pollsSinceFire, second>>
    /\ UNCHANGED <<orderVars, cycleVars, fnVars>>

\* The daemon is stopped (or has crashed) and is started again: startDaemon
\* runs anew, with a fresh closure variable lastRunHour = -1.
RestartDaemon ==
    /\ proc.state \in {"daemon", "crashed"}
    /\ proc.starts < MaxStarts
    /\ proc' = [StartedDaemon(proc.webhook) EXCEPT !.starts = proc.starts + 1]
    /\ lastRunHour' = -1
    /\ running' = 0
    /\ pollsSinceFire' = 0
    /\ UNCHANGED <<hour, localHour, minute, dstUsed, firedThisHour, second>>
    /\ UNCHANGED <<orderVars, cycleVars, fnVars>>

DaemonNext ==
    \/ checkAndRun
    \/ checkAndRunIdle
    \/ runTradeReturns
    \/ AdvanceMinute
    \/ AdvanceHour
    \/ AdvanceHourDst
    \/ WebhookDelivered
    \/ WebhookError
    \/ RestartDaemon

SpecDaemon == DaemonInit /\ [][DaemonNext]_vars

(***************************************************************************)
(* C24: no failure that occurs while the daemon is running (here: a failed *)
(* webhook delivery of a notification) terminates the daemon process.      *)
(***************************************************************************)
C24_DaemonSurvivesFailures == proc.state # "crashed"

(***************************************************************************)
(* C25: at most one cycle runs per settlement window (clock hour), also    *)
(* when the daemon process was stopped and started again.                  *)
(***************************************************************************)
C25_OneCyclePerWindowAcrossRestarts == proc.starts > 1 => firedThisHour <= 1

(***************************************************************************)
(* Failed upstream fetches of a cycle.                                     *)
(***************************************************************************)
\* Neither the spot fetch nor the ticker fetch returned a price.
NoReferencePrice == inp.spot = 0 /\ inp.tick = 0

\* The spot, the ticker or the candle fetch failed.
SignalFetchFailed == inp.spot = 0 \/ inp.tick = 0 \/ inp.candles.n = 0

RunnerTriggers(m, sec) == m = RunnerRunAtMinute /\ sec < RunnerTriggerSeconds

\* The time of the next call: one interval later; node re-arms the timer when
\* the callback runs, so a call may come late (here: by up to one second).
RunnerTick(late) ==
    LET sec == second + late
        min == minute + 1 + (sec \div SecondsPerMinute)
    IN [hour |-> hour + (min \div MinutesPerHour),
        minute |-> min % MinutesPerHour,
        second |-> sec % SecondsPerMinute]

\* startDaemon has run, its immediate checkAndRun() included; the process may
\* be started at any minute and second.
RunnerDaemonInit ==
    /\ hour = 0
    /\ localHour = 0
    /\ minute \in 0..(MinutesPerHour - 1)
    /\ second \in 0..(SecondsPerMinute - 1)
    /\ proc = StartedDaemon(FALSE)
    /\ dstUsed = FALSE
    /\ lastRunHour = -1
    /\ firedThisHour = (IF RunnerTriggers(minute, second) THEN 1 ELSE 0)
    /\ running = (IF RunnerTriggers(minute, second) THEN 1 ELSE 0)
    /\ pollsSinceFire = 0
    /\ variant = "runner"
    /\ creds = "ok"
    /\ order = NoOrder
    /\ OrderIdle
    /\ CycleIdle
    /\ FnIdle

\* The interval timer calls checkAndRun.
runnerCheckAndRunAt(t) ==
    /\ proc.state = "daemon"
    /\ t.hour <= MaxHours
    /\ hour' = t.hour
    /\ minute' = t.minute
    /\ second' = t.second
    /\ LET before == IF t.hour = hour THEN firedThisHour ELSE 0
       IN IF RunnerTriggers(t.minute, t.second)
          THEN /\ firedThisHour' = before + 1
               /\ running' = running + 1
          ELSE /\ firedThisHour' = before
               /\ UNCHANGED running
    /\ UNCHANGED <<localHour, dstUsed, lastRunHour, pollsSinceFire, proc>>
    /\ UNCHANGED <<orderVars, cycleVars, fnVars>>

\* checkAndRun of runner.js, called in time.
runnerCheckAndRun == runnerCheckAndRunAt(RunnerTick(0))

\* checkAndRun of runner.js, called late.
runnerCheckAndRunLate == runnerCheckAndRunAt(RunnerTick(1))

RunnerDaemonNext ==
    \/ runnerCheckAndRun
    \/ runnerCheckAndRunLate
    \/ runTradeReturns

SpecRunnerDaemon == RunnerDaemonInit /\ [][RunnerDaemonNext]_vars

(***************************************************************************)
(* C26: once the runner.js daemon has been started, a trade cycle is run   *)
(* at minute :54 of every following hour, whatever second of the minute    *)
(* the daemon was started at: whenever the clock is past :54 in an hour    *)
(* that began after the start, a cycle was run in that hour.               *)
(***************************************************************************)
C26_CycleEveryFollowingHour ==
    (hour >= 1 /\ minute > RunnerRunAtMinute) => firedThisHour >= 1

(***************************************************************************)
(* C27: every call of placeOrder ends in exactly one of the outcomes       *)
(* success, failure or no credentials, signing failures included: no       *)
(* promise of the call chain ends in any other way.                        *)
(***************************************************************************)
C27_EndsInOneOfThreeOutcomes ==
    \A i \in Attempts : promise[i].kind \in {"pending", "success"} \cup FailureKinds

(***************************************************************************)
(* C28: every submission answered with a 2xx status ends placeOrder in the *)
(* success outcome, with no further submission.                            *)
(***************************************************************************)
C28_Every2xxIsSuccess ==
    \A i \in Attempts :
        events[i] \in {"ok2xx", "bad2xx"} =>
            /\ promise[0] = Outcome("success", i)
            /\ Len(sent) = i + 1

(***************************************************************************)
(* Single-run mode (no --daemon): the entry point calls runTrade() once    *)
(* and, when its promise is fulfilled, process.exit(0) unless --no-exit    *)
(* was given.                                                              *)
(***************************************************************************)

\* The process just started without --daemon; runTrade has notified
\* "Fetching market data..." and its fetches have been joined.
StartedSingle(webhook, noExit) ==
    [state |-> "single", webhook |-> webhook, inflight |-> webhook, starts |-> 1,
     exitCode |-> -1, noExit |-> noExit]

SinglePrices == { <<0, 0>>, <<7877137, 0>>, <<7950000, 0>> }

SingleMarkets ==
    { <<>>,
      << MarketA(Now + Minutes(44), 62, 40) >>,
      << MarketA(Now + Minutes(5), 99, 99) >> }

\* Balances fetched by a single run: those of a cycle and a portfolio of five
\* dollars, a tenth of which buys no contract at the asks of SingleMarkets.
SingleBalances(v, c) ==
    IF v = "late" /\ c = "ok" THEN Balances(v, c) \cup {500} ELSE Balances(v, c)

SingleInit ==
    /\ ClockIdle
    /\ proc \in {StartedSingle(w, n) : w \in BOOLEAN, n \in BOOLEAN}
    /\ FnIdle
    /\ OrderIdle
    /\ order = NoOrder
    /\ pc = "fetched"
    /\ report = NoReport
    /\ variant \in {"late", "runner"}
    /\ creds \in {"none", "ok", "badkey"}
    /\ inp \in {[spot |-> pr[1], tick |-> pr[2], markets |-> m, candles |-> NoCandles,
                 balance |-> b] :
                   pr \in SinglePrices, m \in SingleMarkets,
                   b \in SingleBalances(variant, creds)}

\* runTrade after the awaited placeOrder: the result is notified (555-563),
\* or the exception of placeOrder is caught and notified (565-568).
runTradeAfterOrder ==
    /\ ProcAlive
    /\ pc = "ordering"
    /\ promise[0] # Pending
    /\ pc' = "done"
    /\ report' = [report EXCEPT !.reason =
                     IF promise[0].kind = "success" THEN "filled"
                     ELSE IF promise[0].kind = "threw" THEN "exception"
                     ELSE "order_failed"]
    /\ proc' = Notified(proc)
    /\ UNCHANGED <<hour, localHour, minute, dstUsed, lastRunHour, firedThisHour,
                   pollsSinceFire, running, second>>
    /\ UNCHANGED <<orderVars, fnVars, inp>>

\* runTrade().then(() => { if (!args.includes("--no-exit")) process.exit(0) })
EntryThen ==
    /\ proc.state = "single"
    /\ pc = "done"
    /\ proc' = IF proc.noExit
               THEN [proc EXCEPT !.state = "lingering"]
               ELSE [proc EXCEPT !.state = "exited", !.inflight = FALSE, !.exitCode = 0]
    /\ UNCHANGED <<hour, localHour, minute, dstUsed, lastRunHour, firedThisHour,
                   pollsSinceFire, running, second>>
    /\ UNCHANGED <<orderVars, cycleVars, fnVars>>

\* With --no-exit node ends by itself, with code 0, once nothing is pending.
NaturalExit ==
    /\ proc.state = "lingering"
    /\ ~proc.inflight
    /\ InFlight = {}
    /\ \A i \in Attempts : handler[i] \in {"idle", "done"}
    /\ proc' = [proc EXCEPT !.state = "exited", !.exitCode = 0]
    /\ UNCHANGED <<hour, localHour, minute, dstUsed, lastRunHour, firedThisHour,
                   pollsSinceFire, running, second>>
    /\ UNCHANGED <<orderVars, cycleVars, fnVars>>

\* The steps of the cycle and of its order, while the process lives.
SingleCycleStep ==
    /\ ProcAlive
    /\ \/ RunTradeLate
       \/ RunTradeRunner
       \/ ResponseEnd
       \/ ErrorEvent
       \/ TimeoutEvent
       \/ Retry

SingleNext ==
    \/ SingleCycleStep
    \/ runTradeAfterOrder
    \/ EntryThen
    \/ NaturalExit
    \/ WebhookDelivered
    \/ WebhookError

SpecSingle == SingleInit /\ [][SingleNext]_vars

(***************************************************************************)
(* C29: in single-run mode the process ends only after its one cycle has   *)
(* ended (no-trade, veto, failed order and caught exception included),     *)
(* and it ends with exit code 0.                                           *)
(***************************************************************************)
C29_SingleRunExitsZero ==
    proc.state \in {"exited", "crashed"} =>
        /\ proc.exitCode = 0
        /\ pc = "done"

(***************************************************************************)
(* generateRecommendation, called on its own.                              *)
(***************************************************************************)
\* [currentPrice, strikePrice] in cents: no price; 0.027% above, 0.038%
\* below and exactly at the strike of the README example; 0.95% above and
\* below it; no strike.
RecommendationPrices ==
    { <<0, 7874999>>, <<7877137, 7874999>>, <<7872000, 7874999>>,
      <<7874999, 7874999>>, <<7950000, 7874999>>, <<7800000, 7874999>>,
      <<7877137, 0>> }

\* ta.prediction as the watch loop builds it: the bias is the larger
\* probability.
RecommendationTa ==
    { [present |-> FALSE, bias |-> "NEUTRAL", upProbability |-> 0, downProbability |-> 0],
      [present |-> TRUE, bias |-> "NEUTRAL", upProbability |-> 50, downProbability |-> 50],
      [present |-> TRUE, bias |-> "UP", upProbability |-> 62, downProbability |-> 38],
      [present |-> TRUE, bias |-> "UP", upProbability |-> 100, downProbability |-> 0],
      [present |-> TRUE, bias |-> "DOWN", upProbability |-> 38, downProbability |-> 62],
      [present |-> TRUE, bias |-> "DOWN", upProbability |-> 45, downProbability |-> 55] }

RecommendationMarkets ==
    { [present |-> FALSE, ticker |-> "null", yesAsk |-> 0, yesBid |-> 0, noAsk |-> 0,
       noBid |-> 0] }
    \cup [present : {TRUE}, ticker : {"KXBTCD-T78749.99"}, yesAsk : {0, 47},
          yesBid : {0, 60}, noAsk : {0, 40}, noBid : {0, 70}]

RecommendationMinutes == {-1, 10, 20, 44}

RecommendInit ==
    /\ ProgramIdle
    /\ ret = NoCall
    /\ \E pr \in RecommendationPrices :
          call \in [fn : {"generateRecommendation"}, currentPrice : {pr[1]},
                    strikePrice : {pr[2]}, market : RecommendationMarkets,
                    ta : RecommendationTa, expiration : RecommendationMinutes]

CallGenerateRecommendation ==
    /\ call.fn = "generateRecommendation"
    /\ Returns([fn |-> "generateRecommendation",
                rec |-> generateRecommendation(call.currentPrice, call.strikePrice,
                                               call.market, call.ta, call.expiration)])

RecommendNext == CallGenerateRecommendation

SpecRecommend == RecommendInit /\ [][RecommendNext]_vars

(***************************************************************************)
(* C30: whenever generateRecommendation gives a side, the side is YES      *)
(* exactly when the current price is above the strike and NO exactly when  *)
(* it is below.                                                            *)
(***************************************************************************)
C30_SideIsPricePosition ==
    (ret.fn = "generateRecommendation" /\ ret.rec.side # "null") =>
        /\ ret.rec.side = "YES" <=> call.currentPrice > call.strikePrice
        /\ ret.rec.side = "NO" <=> call.currentPrice < call.strikePrice

(***************************************************************************)
(* C31: the marker lastRunHour is set when checkAndRun starts the cycle,   *)
(* before runTrade awaits anything: from the start of a cycle on, and      *)
(* whether the cycle is still running or has ended (normally or by an      *)
(* exception), the marker names the current hour and no poll starts a      *)
(* second cycle in that hour.                                              *)
(***************************************************************************)
C31_MarkerSetAtCycleStart ==
    firedThisHour >= 1 =>
        /\ lastRunHour = localHour
        /\ firedThisHour = 1

\* A poll arrived in the trigger minute while the cycle fired in it was still
\* running, and did not fire.
C31_Witness ==
    /\ minute = LateRunAtMinute
    /\ firedThisHour = 1
    /\ running = 1
    /\ pollsSinceFire >= 1

(***************************************************************************)
(* C32: every poll that sees the trigger minute in a settlement window     *)
(* (clock hour) in which no cycle has been fired yet fires a cycle: in     *)
(* such a minute the condition tested by checkAndRun is true, so that no   *)
(* poll takes the branch that does nothing.                                *)
(***************************************************************************)
C32_EveryPollOfUnfiredWindowFires ==
    (proc.state = "daemon" /\ minute = LateRunAtMinute /\ firedThisHour = 0) =>
        /\ lastRunHour # localHour
        /\ ENABLED checkAndRun
        /\ ~ENABLED checkAndRunIdle

(***************************************************************************)
(* C33: a signing failure during placeOrder is never followed by another   *)
(* submission, and it ends the execution with a failure outcome.           *)
(***************************************************************************)
C33_SigningFailureEndsAsFailure ==
    \A i \in Attempts :
        promise[i].kind = "threw" =>
            /\ Len(sent) <= i
            /\ \A j \in Attempts : j > i => reqState[j] = "unused"
            /\ promise[0].kind \in FailureKinds

ExpirationTimes == {0, -1, Now + Minutes(5), Now + Minutes(60), Now + Minutes(65)}

ExpirationMarkets ==
    { [NullMarket EXCEPT !.ticker = "KXBTCD-T78749.99", !.close_time = c,
                         !.expected_expiration_time = e, !.expiration_time = x] :
          c \in ExpirationTimes, e \in ExpirationTimes, x \in ExpirationTimes }

ExpirationInit ==
    /\ ProgramIdle
    /\ ret = NoCall
    /\ call \in [fn : {"parseExpiration"}, market : ExpirationMarkets]

CallParseExpiration ==
    /\ call.fn = "parseExpiration"
    /\ Returns([fn |-> "parseExpiration", date |-> parseExpiration(call.market)])

ExpirationNext == CallParseExpiration

SpecExpiration == ExpirationInit /\ [][ExpirationNext]_vars

(***************************************************************************)
(* C35: parseExpiration returns the date of close_time whenever that field *)
(* is present, whatever the other two fields hold; it returns the date of  *)
(* expected_expiration_time only when close_time is absent, and the date   *)
(* of expiration_time only when both are absent.  The date of a field that *)
(* is not a date is null (0).                                              *)
(***************************************************************************)
C35_CloseTimePreferred ==
    ret.fn = "parseExpiration" =>
        LET m == call.market
            date(str) == IF str <= 0 THEN 0 ELSE str
        IN /\ m.close_time # 0 => ret.date = date(m.close_time)
           /\ (m.close_time = 0 /\ m.expected_expiration_time # 0) =>
                  ret.date = date(m.expected_expiration_time)
           /\ (m.close_time = 0 /\ m.expected_expiration_time = 0) =>
                  ret.date = date(m.expiration_time)

\* All three fields are dates, the trading close is the earliest, and it is
\* the one returned.
C35_Witness ==
    /\ ret.fn = "parseExpiration"
    /\ call.market.close_time = Now + Minutes(5)
    /\ call.market.expected_expiration_time = Now + Minutes(60)
    /\ call.market.expiration_time = Now + Minutes(65)
    /\ ret.date = Now + Minutes(5)

(***************************************************************************)
(* C36: once placeOrder has resolved (the promise of the first call holds  *)
(* the outcome the cycle reports), no order submission of that cycle is    *)
(* still in flight and none is issued any more: no request is open and no  *)
(* callback is waiting to resubmit.                                        *)
(***************************************************************************)
C36_NothingInFlightAfterResolution ==
    promise[0] # Pending =>
        /\ InFlight = {}
        /\ \A i \in Attempts : handler[i] # "sleeping"

(***************************************************************************)
(* C37: for every order submitted by runner-late, the estimated cost       *)
(* (contract count times ask price, in cents) does not exceed              *)
(* positionSizePct percent of the fetched portfolio balance.               *)
(***************************************************************************)
C37_CostWithinPositionSize ==
    variant = "late" =>
        \A k \in 1..Len(sent) :
            sent[k].count * askPrice * 100 <= inp.balance * positionSizePct

(***************************************************************************)
(* C38: an order is submitted by runner-late only in a cycle in which the  *)
(* volatility of the last five candles was computed (at least five candles *)
(* were fetched) and found at or below maxVolatility.                      *)
(***************************************************************************)
C38_OrderOnlyAfterVolatilityCheck ==
    (variant = "late" /\ Len(sent) >= 1) =>
        /\ inp.candles.n >= 5
        /\ inp.candles.range * 1000 <= maxVolatilityPermille * currentPrice

(***************************************************************************)
(* C39: every retry submission of placeOrder carries the same ticker,      *)
(* side, contract count and price (and action and order type) as the first *)
(* submission; only the attempt counter changes, and it increases by       *)
(* exactly one per retry, starting from 0.                                 *)
(***************************************************************************)
C39_RetryCarriesSameOrder ==
    \A k \in 1..Len(sent) :
        /\ sent[k] = [sent[1] EXCEPT !.retry = sent[k].retry]
        /\ sent[k].retry = k - 1
        /\ sent[k].ticker = order.ticker
        /\ sent[k].side = order.side
        /\ sent[k].count = order.count

\* The order was submitted three times: the first attempt and two retries.
C39_Witness ==
    /\ Len(sent) = maxRetries + 1
    /\ sent[2].retry = 1
    /\ sent[3].retry = 2
    /\ sent[3].count = 100
    /\ sent[3].yes_price + sent[3].no_price = sent[1].yes_price + sent[1].no_price

====
